---- MODULE Spec2Model ----
(***************************************************************************)
(* Model of OrbitalMathHelper (src/src/OrbitalHelper.rs): the fixed-point  *)
(* primitives, the torus invariant and the Newton solver with its          *)
(* fallbacks.                                                              *)
(*                                                                         *)
(* A U256 is a natural number below 2^256.  TLC's integers are 32 bits     *)
(* wide, so a U256 is kept as its sequence of base-10000 limbs, least      *)
(* significant limb first, without leading zero limbs (0 is << >>).  The   *)
(* arithmetic below is exact; the program's constants keep their values.   *)
(***************************************************************************)
EXTENDS Integers, Sequences, FiniteSets, TLC

VARIABLES pc, args, initial_invariant, y, trust_radius, consecutive_failures,
          iteration, f_y, step_size, gd_iteration, ret, path,
          fp_op, fp_a, fp_b, sq_z, sq_y, sq_n

vars == <<pc, args, initial_invariant, y, trust_radius, consecutive_failures,
          iteration, f_y, step_size, gd_iteration, ret, path,
          fp_op, fp_a, fp_b, sq_z, sq_y, sq_n>>

---------------------------------------------------------------------------
(* U256: natural numbers as limb sequences *)

LimbBase == 10000

Limb(a, i) == IF i <= Len(a) THEN a[i] ELSE 0

\* a without its leading zero limbs
Norm(a) ==
    IF Len(a) = 0 \/ a[Len(a)] # 0 THEN a
    ELSE LET nz == {i \in 1..Len(a) : a[i] # 0}
         IN IF nz = {} THEN << >>
            ELSE SubSeq(a, 1, CHOOSE i \in nz : \A j \in nz : j <= i)

RECURSIVE FromNat(_)
FromNat(n) == IF n = 0 THEN << >> ELSE <<n % LimbBase>> \o FromNat(n \div LimbBase)

\* the number written as groups of four decimal digits, most significant first
Dec(groups) == Norm([i \in 1..Len(groups) |-> groups[Len(groups) + 1 - i]])

\* -1, 0 or 1 as a < b, a = b or a > b
Cmp(a, b) ==
    IF Len(a) # Len(b) THEN (IF Len(a) < Len(b) THEN -1 ELSE 1)
    ELSE LET diff == {i \in 1..Len(a) : a[i] # b[i]}
         IN IF diff = {} THEN 0
            ELSE LET m == CHOOSE i \in diff : \A j \in diff : j <= i
                 IN IF a[m] < b[m] THEN -1 ELSE 1

Lt(a, b) == Cmp(a, b) < 0
Le(a, b) == Cmp(a, b) <= 0
Gt(a, b) == Cmp(a, b) > 0
Ge(a, b) == Cmp(a, b) >= 0

is_zero(a) == Len(a) = 0

\* TLC computes a value where it is first used; Known(v) has it computed now
Known(v) == v = v

\* Carries are looked ahead rather than rippled: for digits s[i] below
\* 2 * LimbBase - 1 the carry into place i is 1 exactly when some lower place
\* overflows and every place between is full.
Carry(s, i) ==
    \E j \in 1..(i - 1) :
        s[j] >= LimbBase /\ \A k \in (j + 1)..(i - 1) : s[k] = LimbBase - 1

\* the limbs of the number whose digits s[i] are below 2 * LimbBase - 1
Settle(s) ==
    LET r == [i \in 1..Len(s) |-> (s[i] + (IF Carry(s, i) THEN 1 ELSE 0)) % LimbBase]
    IN IF Carry(s, Len(s) + 1) THEN Append(r, 1) ELSE r

\* the same number with each digit's excess over a limb moved one place up
Spread(s) ==
    [i \in 1..(Len(s) + 1) |-> (Limb(s, i) % LimbBase)
                               + (IF i > 1 THEN s[i - 1] \div LimbBase ELSE 0)]

Add(a, b) ==
    Settle([i \in 1..(IF Len(a) > Len(b) THEN Len(a) ELSE Len(b)) |-> Limb(a, i) + Limb(b, i)])

\* the borrow into place i of the digit differences d
Borrow(d, i) ==
    \E j \in 1..(i - 1) : d[j] < 0 /\ \A k \in (j + 1)..(i - 1) : d[k] = 0

\* a - b for a >= b
Sub(a, b) ==
    LET d == [i \in 1..Len(a) |-> a[i] - Limb(b, i)]
    IN Norm([i \in 1..Len(a) |->
                (d[i] - (IF Borrow(d, i) THEN 1 ELSE 0) + LimbBase) % LimbBase])

\* a * d for one limb d
MulLimb(a, d) ==
    IF d = 0 \/ Len(a) = 0 THEN << >>
    ELSE Norm(Settle(Spread([i \in 1..Len(a) |-> a[i] * d])))

\* the sum over j in lo..hi of limb k + 1 - j of a times limb j of b
RECURSIVE ColumnSum(_, _, _, _, _)
ColumnSum(a, b, k, lo, hi) ==
    IF lo > hi THEN 0
    ELSE IF lo = hi THEN a[k + 1 - lo] * b[lo]
    ELSE ColumnSum(a, b, k, lo, (lo + hi) \div 2)
         + ColumnSum(a, b, k, (lo + hi) \div 2 + 1, hi)

\* column k of the long multiplication of a by b
Column(a, b, k) ==
    ColumnSum(a, b, k, IF k + 1 - Len(a) > 1 THEN k + 1 - Len(a) ELSE 1,
              IF Len(b) < k THEN Len(b) ELSE k)

\* a * b for a and b of at most 20 limbs
Mul(a, b) ==
    IF Len(a) = 0 \/ Len(b) = 0 THEN << >>
    ELSE Norm(Settle(Spread(Spread([k \in 1..(Len(a) + Len(b) - 1) |-> Column(a, b, k)]))))

RECURSIVE FixQuotient(_, _, _)
FixQuotient(r, b, q) == IF Le(MulLimb(b, q), r) THEN q ELSE FixQuotient(r, b, q - 1)

\* the estimate of the next quotient limb from the top limbs of r and b
Estimate(r, b) ==
    IF (Limb(r, Len(b) + 1) * LimbBase + Limb(r, Len(b))) \div b[Len(b)] > LimbBase - 1
    THEN LimbBase - 1
    ELSE (Limb(r, Len(b) + 1) * LimbBase + Limb(r, Len(b))) \div b[Len(b)]

\* the next limb of the quotient of r by b (b's top limb at least
\* LimbBase / 2): the estimate, corrected downwards
QuotientLimb(r, b) == FixQuotient(r, b, Estimate(r, b))

\* the quotient limb qh is taken out of the remainder r1
DivTake(b, r1, qh, st) ==
    IF Known(qh) THEN [r |-> Sub(r1, MulLimb(b, qh)), q |-> <<qh>> \o st.q] ELSE st

DivBring(b, r1, st) == IF Known(r1) THEN DivTake(b, r1, QuotientLimb(r1, b), st) ELSE st

\* one step of schoolbook long division by b: limb i of a is brought down
\* to the running remainder st.r
DivStep(a, b, i, st) == DivBring(b, Norm(<<a[i]>> \o st.r), st)

\* the size of each of the eight parts a loop of n passes is run in
Part(n) == (n + 7) \div 8

\* the passes left for a part when m passes remain
PartOf(n, m) == IF m < Part(n) THEN m ELSE Part(n)

\* the n steps for limbs hi, hi - 1, ..., hi - n + 1, in eight parts, each
\* computed before the next
RECURSIVE DivSteps(_, _, _, _, _)
DivSteps(a, b, hi, n, st) ==
    IF n <= 0 THEN st
    ELSE IF n = 1 THEN DivStep(a, b, hi, st)
    ELSE LET s1 == DivSteps(a, b, hi, Part(n), st)
             s2 == DivSteps(a, b, hi - Part(n), PartOf(n, n - Part(n)), s1)
             s3 == DivSteps(a, b, hi - 2 * Part(n), PartOf(n, n - 2 * Part(n)), s2)
             s4 == DivSteps(a, b, hi - 3 * Part(n), PartOf(n, n - 3 * Part(n)), s3)
             s5 == DivSteps(a, b, hi - 4 * Part(n), PartOf(n, n - 4 * Part(n)), s4)
             s6 == DivSteps(a, b, hi - 5 * Part(n), PartOf(n, n - 5 * Part(n)), s5)
             s7 == DivSteps(a, b, hi - 6 * Part(n), PartOf(n, n - 6 * Part(n)), s6)
         IN IF /\ Known(s1)
               /\ Known(s2)
               /\ Known(s3)
               /\ Known(s4)
               /\ Known(s5)
               /\ Known(s6)
               /\ Known(s7)
            THEN DivSteps(a, b, hi - 7 * Part(n), PartOf(n, n - 7 * Part(n)), s7)
            ELSE st

\* floor(an / bn) for an >= bn and bn's top limb at least LimbBase / 2
DivScaled(an, bn) ==
    IF Known(an) /\ Known(bn)
    THEN Norm(DivSteps(an, bn, Len(an), Len(an), [r |-> << >>, q |-> << >>]).q)
    ELSE << >>

\* floor(a / b) for b # 0
Div(a, b) ==
    IF Lt(a, b) THEN << >>
    ELSE DivScaled(MulLimb(a, LimbBase \div (b[Len(b)] + 1)),
                   MulLimb(b, LimbBase \div (b[Len(b)] + 1)))

\* 2^256 - 1
U256_MAX == Dec(<<11, 5792, 892, 3731, 6195, 4235, 7098, 5008, 6879, 785,
                  3269, 9846, 6564, 564, 394, 5758, 4007, 9131, 2963, 9935>>)

\* v, or U256::MAX if v is beyond it
Cap(v) == IF Gt(v, U256_MAX) THEN U256_MAX ELSE v

saturating_add(a, b) == Cap(Add(a, b))

saturating_sub(a, b) == IF Ge(a, b) THEN Sub(a, b) ELSE << >>

saturating_mul(a, b) == Cap(Mul(a, b))

\* U256::from(n) for a small literal n
U(n) == FromNat(n)

\* Option<U256>: None, or the U256 itself
None == <<-1>>

---------------------------------------------------------------------------
(* Constants *)

TOKENS_COUNT == 5
\* 1e15
PRECISION == Dec(<<1000, 0, 0, 0>>)
SQRT5_SCALED == Dec(<<2236, 679, 7749, 9790>>)
\* 1e8
TOLERANCE_FACTOR == Dec(<<1, 0, 0>>)
\* 1e12
EPSILON_SCALED == Dec(<<1, 0, 0, 0>>)
\* 1e6
TINY_SCALED == Dec(<<100, 0>>)
\* 2^128 - 1
MAX_SAFE_MULTIPLY == Dec(<<340, 2823, 6692, 938, 4634, 6337, 4607, 4317, 6821, 1455>>)
MAX_ITERATIONS_SQRT == 64
MAX_NEWTON_ITERATIONS == 100
CONVERGENCE_THRESHOLD == U(1000)
max_gd_iterations == 20

---------------------------------------------------------------------------
(* Fixed-point helpers *)

safe_mul(a, b) ==
    IF is_zero(a) \/ is_zero(b) THEN << >>
    ELSE IF Gt(a, Div(MAX_SAFE_MULTIPLY, b)) THEN None
    ELSE saturating_mul(a, b)

\* mul_fixed from the Option product that safe_mul gave; the approximation
\* is a_high * b_high * scale_factor / PRECISION
mul_fixed_product(product, a, b) ==
    IF product # None THEN Div(product, PRECISION)
    ELSE Div(saturating_mul(saturating_mul(Div(a, U(1000000)), Div(b, U(1000000))),
                            Dec(<<1, 0, 0, 0>>)),
             PRECISION)

mul_fixed(a, b) == mul_fixed_product(safe_mul(a, b), a, b)

\* the scaled branch divides a_scaled * precision_scaled by b
div_fixed(a, b) ==
    IF is_zero(b) THEN << >>
    ELSE IF Le(a, Div(MAX_SAFE_MULTIPLY, PRECISION))
         THEN Div(saturating_mul(a, PRECISION), b)
         ELSE Div(saturating_mul(Div(a, U(1000000)), Div(PRECISION, U(1000000))), b)

abs_fixed(x) == x

max_fixed(a, b) == IF Ge(a, b) THEN a ELSE b

min_fixed(a, b) == IF Le(a, b) THEN a ELSE b

\* the seed y of sqrt_fixed's loop; z starts at x in both branches
SqrtSeed(x) == IF Lt(x, PRECISION) THEN PRECISION ELSE Div(saturating_add(x, PRECISION), U(2))

\* one pass of the body of sqrt_fixed's loop on s = [z, y, fin]; fin marks
\* a return or a break, after which the result is s.z
SqrtPass(x, s) ==
    IF s.fin THEN s
    ELSE IF Ge(s.y, s.z) THEN [z |-> s.z, y |-> s.y, fin |-> TRUE]
    ELSE IF is_zero(s.y) THEN [z |-> s.y, y |-> s.y, fin |-> TRUE]
    ELSE [z |-> s.y,
          y |-> Div(saturating_add(div_fixed(x, s.y), s.y), U(2)),
          fin |-> FALSE]

\* n passes of the loop, in eight parts, each computed before the next
RECURSIVE SqrtPasses(_, _, _)
SqrtPasses(x, s, n) ==
    IF n <= 0 THEN s
    ELSE IF n = 1 THEN SqrtPass(x, s)
    ELSE LET s1 == SqrtPasses(x, s, Part(n))
             s2 == SqrtPasses(x, s1, PartOf(n, n - Part(n)))
             s3 == SqrtPasses(x, s2, PartOf(n, n - 2 * Part(n)))
             s4 == SqrtPasses(x, s3, PartOf(n, n - 3 * Part(n)))
             s5 == SqrtPasses(x, s4, PartOf(n, n - 4 * Part(n)))
             s6 == SqrtPasses(x, s5, PartOf(n, n - 5 * Part(n)))
             s7 == SqrtPasses(x, s6, PartOf(n, n - 6 * Part(n)))
         IN IF /\ Known(s1)
               /\ Known(s2)
               /\ Known(s3)
               /\ Known(s4)
               /\ Known(s5)
               /\ Known(s6)
               /\ Known(s7)
            THEN SqrtPasses(x, s7, PartOf(n, n - 7 * Part(n)))
            ELSE s

sqrt_fixed(x) ==
    IF is_zero(x) THEN << >>
    ELSE IF x = PRECISION THEN PRECISION
    ELSE SqrtPasses(x, [z |-> x, y |-> SqrtSeed(x), fin |-> FALSE], MAX_ITERATIONS_SQRT).z

---------------------------------------------------------------------------
(* The torus invariant *)

\* Result<U256, MathError>
Ok(v) == [ok |-> TRUE, val |-> v]
Err(e) == [ok |-> FALSE, val |-> e]

\* the loop over the reserves from the i-th on; acc holds the two sums
RECURSIVE SumReserves(_, _, _)
SumReserves(total_reserves, i, acc) ==
    IF i > Len(total_reserves) \/ ~Known(acc) THEN acc
    ELSE SumReserves(total_reserves, i + 1,
            [sum_total_reserves |-> saturating_add(acc.sum_total_reserves, total_reserves[i]),
             sum_squares |-> saturating_add(acc.sum_squares,
                                            mul_fixed(total_reserves[i], total_reserves[i]))])

\* a - b, or 0 if a < b
excess(a, b) == IF Ge(a, b) THEN saturating_sub(a, b) ELSE << >>

square(x) == mul_fixed(x, x)

\* (sum_total)^2 / n by integer division, outside the fixed-point scale
mean_squared_unscaled(sum_squared) == Div(sum_squared, U(TOKENS_COUNT))

\* (sum_total)^2 / n
mean_squared(sum_squared) == div_fixed(sum_squared, U(TOKENS_COUNT))

\* the variance-like term from the two sums of the loop
variance_term(sums) ==
    excess(sums.sum_squares, mean_squared(square(sums.sum_total_reserves)))

\* (sum_interior / sqrt(n) - (k_bound + r_int * sqrt(n)))^2
term1(sum_interior_reserves, interior_consolidated_radius, boundary_total_k_bound) ==
    square(excess(mul_fixed(sum_interior_reserves, div_fixed(PRECISION, SQRT5_SCALED)),
                  saturating_add(boundary_total_k_bound,
                                 mul_fixed(interior_consolidated_radius, SQRT5_SCALED))))

\* (sqrt(variance term) - r_bound)^2
term2(boundary_consolidated_radius, total_reserves) ==
    square(excess(sqrt_fixed(variance_term(
                      SumReserves(total_reserves, 1,
                                  [sum_total_reserves |-> << >>, sum_squares |-> << >>]))),
                  boundary_consolidated_radius))

compute_torus_invariant_fixed(sum_interior_reserves, interior_consolidated_radius, boundary_consolidated_radius, boundary_total_k_bound, total_reserves) ==
    IF Len(total_reserves) # TOKENS_COUNT THEN Err("InvalidArrayLength")
    ELSE Ok(saturating_add(term1(sum_interior_reserves, interior_consolidated_radius,
                                 boundary_total_k_bound),
                           term2(boundary_consolidated_radius, total_reserves)))

---------------------------------------------------------------------------
(* The tick helpers *)

\* the loop of calculateRadius over the reserves from the i-th on
RECURSIVE SumSquares(_, _, _)
SumSquares(reserves, i, sum_squares) ==
    IF i > Len(reserves) \/ ~Known(sum_squares) THEN sum_squares
    ELSE SumSquares(reserves, i + 1,
                    saturating_add(sum_squares, mul_fixed(reserves[i], reserves[i])))

calculateRadius(reserves) ==
    IF Len(reserves) = 0 THEN << >>
    ELSE sqrt_fixed(SumSquares(reserves, 1, << >>))

\* |k - r_over_sqrt_n|
tick_diff(k, r_over_sqrt_n) ==
    IF Ge(k, r_over_sqrt_n) THEN saturating_sub(k, r_over_sqrt_n)
    ELSE saturating_sub(r_over_sqrt_n, k)

\* sqrt(r^2 - diff^2) from the two squares, 0 if r^2 <= diff^2
tick_s(r_squared, diff_squared) ==
    IF Le(r_squared, diff_squared) THEN << >>
    ELSE sqrt_fixed(saturating_sub(r_squared, diff_squared))

\* the s value from diff = |k - r / sqrt(5)|
tick_s_of(r, diff) == tick_s(mul_fixed(r, r), mul_fixed(diff, diff))

calculateBoundaryTickS(r, k) ==
    IF is_zero(r) THEN << >>
    ELSE tick_s_of(r, tick_diff(k, div_fixed(mul_fixed(r, PRECISION), SQRT5_SCALED)))

---------------------------------------------------------------------------
(* The solver's helpers.  A call's arguments are the record a:               *)
(* sum_interior_reserves, interior_consolidated_radius,                     *)
(* boundary_consolidated_radius, boundary_total_k_bound, token_in_index,    *)
(* token_out_index (numbers from 0), amount_in_after_fee, total_reserves.   *)
(* A parameter that shares its name with a variable has _ appended.        *)

\* total_reserves[idx] of the source, whose indices start at 0
At(total_reserves, idx) == total_reserves[idx + 1]

max_reserve(total_reserves) ==
    IF Len(total_reserves) = 0 THEN << >>
    ELSE total_reserves[CHOOSE i \in 1..Len(total_reserves) :
                            \A j \in 1..Len(total_reserves) :
                                Le(total_reserves[j], total_reserves[i])]

\* validate_inputs without its check of the amount against zero
validate_inputs_any_amount(total_reserves, token_in_idx, token_out_idx, amount_in_after_fee, sum_interior_reserves, boundary_consolidated_radius) ==
    IF token_in_idx >= TOKENS_COUNT \/ token_out_idx >= TOKENS_COUNT THEN FALSE
    ELSE IF token_in_idx = token_out_idx THEN FALSE
    ELSE IF Len(total_reserves) # TOKENS_COUNT THEN FALSE
    ELSE IF is_zero(sum_interior_reserves) /\ is_zero(boundary_consolidated_radius) THEN FALSE
    ELSE IF \E i \in 1..Len(total_reserves) :
                Ge(total_reserves[i], MAX_SAFE_MULTIPLY) \/ is_zero(total_reserves[i])
         THEN FALSE
    ELSE IF Gt(amount_in_after_fee, mul_fixed(max_reserve(total_reserves), U(10))) THEN FALSE
    ELSE TRUE

validate_inputs(total_reserves, token_in_idx, token_out_idx, amount_in_after_fee, sum_interior_reserves, boundary_consolidated_radius) ==
    IF token_in_idx >= TOKENS_COUNT \/ token_out_idx >= TOKENS_COUNT THEN FALSE
    ELSE IF token_in_idx = token_out_idx THEN FALSE
    ELSE IF Len(total_reserves) # TOKENS_COUNT THEN FALSE
    ELSE IF is_zero(amount_in_after_fee) THEN FALSE
    ELSE IF is_zero(sum_interior_reserves) /\ is_zero(boundary_consolidated_radius) THEN FALSE
    ELSE IF \E i \in 1..Len(total_reserves) :
                Ge(total_reserves[i], MAX_SAFE_MULTIPLY) \/ is_zero(total_reserves[i])
         THEN FALSE
    ELSE IF Gt(amount_in_after_fee, mul_fixed(max_reserve(total_reserves), U(10))) THEN FALSE
    ELSE TRUE

\* the guess, or the conservative lower bound if it is 0
nonzero_guess(guess, amount_in) ==
    IF is_zero(guess) THEN div_fixed(amount_in, U(100)) ELSE guess

\* the guess, at most max_output
bounded_guess(guess, max_output) == IF Ge(guess, max_output) THEN max_output ELSE guess

\* calculate_initial_guess from the Option numerator that safe_mul gave
guess_from(numerator, denominator, amount_in, r_out) ==
    IF numerator = None THEN None
    ELSE IF is_zero(denominator) THEN None
    ELSE bounded_guess(nonzero_guess(div_fixed(numerator, denominator), amount_in),
                       Div(mul_fixed(r_out, U(95)), U(100)))

calculate_initial_guess(amount_in, r_in, r_out) ==
    IF is_zero(r_in) \/ is_zero(r_out) THEN None
    ELSE guess_from(safe_mul(amount_in, r_out), saturating_add(r_in, amount_in),
                    amount_in, r_out)

\* the reserves after amount_in_after_fee has been added to the input token
reserves_with_input(a) ==
    [i \in 1..Len(a.total_reserves) |->
        IF i = a.token_in_index + 1
        THEN saturating_add(a.total_reserves[i], a.amount_in_after_fee)
        ELSE a.total_reserves[i]]

new_reserves(a, y_) ==
    [i \in 1..Len(a.total_reserves) |->
        IF i = a.token_out_index + 1 THEN saturating_sub(reserves_with_input(a)[i], y_)
        ELSE reserves_with_input(a)[i]]

\* the function value from the result res of compute_torus_invariant_fixed
function_value(res, initial_inv) ==
    IF ~res.ok THEN None
    ELSE IF Ge(res.val, initial_inv)
         THEN saturating_add(saturating_sub(res.val, initial_inv), PRECISION)
    ELSE saturating_sub(initial_inv, res.val)

safe_evaluate_function(y_, a, initial_inv) ==
    IF is_zero(y_) \/ Ge(y_, At(a.total_reserves, a.token_out_index)) THEN None
    ELSE IF Lt(At(reserves_with_input(a), a.token_out_index), y_) THEN None
    ELSE IF \E i \in 1..Len(a.total_reserves) : Ge(new_reserves(a, y_)[i], MAX_SAFE_MULTIPLY)
         THEN None
    ELSE function_value(compute_torus_invariant_fixed(
                            a.sum_interior_reserves, a.interior_consolidated_radius,
                            a.boundary_consolidated_radius, a.boundary_total_k_bound,
                            new_reserves(a, y_)),
                        initial_inv)

\* |f_1 - f_2| / width of two Option function values
difference_quotient(f_1, f_2, width) ==
    IF f_1 = None THEN None
    ELSE IF f_2 = None THEN None
    ELSE IF is_zero(width) THEN None
    ELSE div_fixed(IF Ge(f_1, f_2) THEN saturating_sub(f_1, f_2)
                   ELSE saturating_sub(f_2, f_1),
                   width)

central_difference_derivative(y_, eps, a, initial_inv) ==
    IF Lt(y_, eps) THEN None
    ELSE difference_quotient(
             safe_evaluate_function(saturating_add(y_, eps), a, initial_inv),
             safe_evaluate_function(saturating_sub(y_, eps), a, initial_inv),
             saturating_mul(eps, U(2)))

forward_difference_derivative(y_, eps, a, initial_inv) ==
    difference_quotient(
        safe_evaluate_function(saturating_add(y_, eps), a, initial_inv),
        safe_evaluate_function(y_, a, initial_inv),
        eps)

\* the central difference deriv if it is above the floor, else the forward one
robust_choice(deriv, forward) ==
    IF deriv # None /\ Gt(deriv, TINY_SCALED) THEN deriv ELSE forward

robust_derivative_with(base_eps, y_, a, initial_inv) ==
    robust_choice(central_difference_derivative(y_, base_eps, a, initial_inv),
                  forward_difference_derivative(y_, Div(base_eps, U(10)), a, initial_inv))

calculate_robust_derivative(y_, a, initial_inv) ==
    robust_derivative_with(
        max_fixed(Div(mul_fixed(y_, EPSILON_SCALED), U(1000)), TINY_SCALED),
        y_, a, initial_inv)

calculate_adaptive_tolerance(invariant) ==
    max_fixed(div_fixed(invariant, TOLERANCE_FACTOR), CONVERGENCE_THRESHOLD)

\* the tolerance the Newton loop applies in iteration iteration_
current_tolerance(base_tolerance, iteration_) ==
    IF iteration_ < 20 THEN mul_fixed(base_tolerance, U(5)) ELSE base_tolerance

\* the Newton step, at most the trust radius (half of it from iteration 10 on)
calculate_adaptive_step(f_y_, derivative, trust_radius_, iteration_) ==
    min_fixed(div_fixed(abs_fixed(f_y_), derivative),
              IF iteration_ < 10 THEN trust_radius_ ELSE Div(trust_radius_, U(2)))

\* the step from y_: down if f_y_ is positive, up if it is negative
stepped_y(y_, f_y_, step_size_) ==
    IF Ge(f_y_, PRECISION)
    THEN (IF Ge(y_, step_size_) THEN saturating_sub(y_, step_size_) ELSE TINY_SCALED)
    ELSE saturating_add(y_, step_size_)

\* new_y kept within TINY_SCALED and max_output
enforce_bounds(new_y, max_output) ==
    IF is_zero(new_y) THEN TINY_SCALED
    ELSE IF Ge(new_y, max_output) THEN max_output
    ELSE new_y

update_y_with_bounds(y_, f_y_, step_size_, r_out) ==
    enforce_bounds(stepped_y(y_, f_y_, step_size_), Div(mul_fixed(r_out, U(98)), U(100)))

adjust_trust_radius(current_radius, iteration_, failures) ==
    IF failures > 0 THEN Div(current_radius, U(2))
    ELSE IF iteration_ < 20 THEN Div(mul_fixed(current_radius, U(11)), U(10))
    ELSE current_radius

validate_final_result(y_, r_out) ==
    IF is_zero(y_) \/ Ge(y_, r_out) THEN None
    ELSE IF Gt(y_, Div(mul_fixed(r_out, U(99)), U(100))) THEN None
    ELSE y_

\* the spot price amount_in * r_out / r_in, without the safety margin
fallback_spot_price(amount_in, r_in, r_out) ==
    IF is_zero(r_in) \/ is_zero(r_out) THEN << >>
    ELSE div_fixed(mul_fixed(amount_in, r_out), r_in)

\* 95/100 of mul_fixed(amount_in, r_out) over the denominator r_in + amount_in
fallback_constant_product(amount_in, r_in, r_out) ==
    IF is_zero(r_in) \/ is_zero(r_out) THEN << >>
    ELSE IF is_zero(saturating_add(r_in, amount_in)) THEN << >>
    ELSE Div(mul_fixed(div_fixed(mul_fixed(amount_in, r_out),
                                 saturating_add(r_in, amount_in)),
                       U(95)),
             U(100))

---------------------------------------------------------------------------
(* Inputs *)

\* token indices are drawn from 0..MaxTokenIndex
MaxTokenIndex == 5
\* reserve vectors have 0..MaxReservesLen elements
MaxReservesLen == 6

\* 10^n
Pow10(n) == [i \in 1..((n \div 4) + 1) |-> IF i = (n \div 4) + 1 THEN 10 ^ (n % 4) ELSE 0]

Call(si, ri, rb, kb, i, o, amount, reserves) ==
    [sum_interior_reserves |-> si, interior_consolidated_radius |-> ri,
     boundary_consolidated_radius |-> rb, boundary_total_k_bound |-> kb,
     token_in_index |-> i, token_out_index |-> o,
     amount_in_after_fee |-> amount, total_reserves |-> reserves]

NoCall == Call(<< >>, << >>, << >>, << >>, 0, 0, << >>, << >>)

\* n reserves of 1000.0 each
Pool(n) == [i \in 1..n |-> Pow10(18)]
Balanced == Pool(TOKENS_COUNT)
\* a small input reserve against a large output reserve
Skewed == <<Pow10(9), Pow10(24), Pow10(18), Pow10(18), Pow10(18)>>
\* an output reserve below 1.0
Starved == <<Pow10(18), Pow10(14), Pow10(18), Pow10(18), Pow10(18)>>
\* an output reserve so large that amount * r_out leaves the safe range
Deep == <<Pow10(18), Pow10(30), Pow10(18), Pow10(18), Pow10(18)>>
\* nearly all liquidity in the output token
OneSided == <<U(1), Pow10(36), U(1), U(1), U(1)>>
\* a boundary radius just below the spread of OneSided
NearRadius == Dec(<<43, 3680, 8689, 9420, 835, 921, 2803, 2713, 1469, 9425>>)

\* the balanced pool of the spec's example: amount 10.0, token 0 for token 1
BalancedSwap == Call(Pow10(18), << >>, << >>, << >>, 0, 1, Pow10(16), Balanced)

Base(amount, reserves) == Call(Pow10(18), << >>, << >>, << >>, 0, 1, amount, reserves)

NamedInputs ==
    { BalancedSwap,
      Base(U(10), Balanced),
      Base(Pow10(9), Skewed),
      Base(U(10), Starved),
      Base(Pow10(10), Deep),
      Call(Mul(U(2), Pow10(19)), << >>, << >>, << >>, 0, 1, U(10), Balanced),
      Call(<< >>, << >>, Pow10(15), << >>, 0, 1, U(10), Balanced),
      Call(<< >>, << >>, << >>, << >>, 0, 1, U(10), Balanced),
      Call(<< >>, << >>, NearRadius, << >>, 0, 1, U(1), OneSided),
      Base(U(10), [Balanced EXCEPT ![3] = << >>]),
      Base(U(10), [Balanced EXCEPT ![3] = MAX_SAFE_MULTIPLY]) }

\* amount 0 with every pair of indices
ZeroAmountInputs ==
    { Call(Pow10(18), << >>, << >>, << >>, i, o, << >>, r) :
        i \in 0..MaxTokenIndex, o \in 0..MaxTokenIndex, r \in {Balanced, Skewed} }

\* reserve vectors of every length, and the index pairs validation refuses
ShapeInputs ==
    { Call(Pow10(18), << >>, << >>, << >>, 0, 1, U(10), Pool(n)) :
        n \in (0..MaxReservesLen) \ {TOKENS_COUNT} }
    \cup
    { Call(Pow10(18), << >>, << >>, << >>, io[1], io[2], U(10), Balanced) :
        io \in { p \in (0..MaxTokenIndex) \X (0..MaxTokenIndex) :
                    p[1] >= TOKENS_COUNT \/ p[2] >= TOKENS_COUNT \/ p[1] = p[2] } }

SolverInputs == NamedInputs \cup ZeroAmountInputs \cup ShapeInputs

\* operands of mul_fixed and div_fixed
FixedInputs == { << >>, U(1), U(95), PRECISION, Pow10(24), MAX_SAFE_MULTIPLY, U256_MAX }

\* arguments of sqrt_fixed; SqrtThreshold is MAX_SAFE_MULTIPLY / PRECISION
SqrtThreshold == Div(MAX_SAFE_MULTIPLY, PRECISION)
SqrtInputs ==
    { << >>, U(1), Div(PRECISION, U(4)), Sub(PRECISION, U(1)), PRECISION,
      Mul(U(4), PRECISION), SqrtThreshold, Add(SqrtThreshold, U(1)), U256_MAX }

\* reserve vectors of a tick, for calculateRadius
RadiusInputs ==
    { << >>, <<Pow10(18)>>, <<Mul(U(3), Pow10(18)), Mul(U(4), Pow10(18))>>, Balanced }

\* a radius whose square is within the safe range of safe_mul, and a plane
\* constant at distance just above that radius from r / sqrt(5), whose
\* square is not
TickRadius == Dec(<<1844, 6744, 737, 955, 1615>>)
TickPlane == Dec(<<2669, 6378, 8161, 8084, 213>>)

\* pairs <<r, k>> for calculateBoundaryTickS
TickInputs ==
    { <<r, k>> : r \in {<< >>, Pow10(18)},
                 k \in {<< >>, Dec(<<44, 7213, 5954, 9995, 7939>>), Pow10(18),
                        Mul(U(15), Pow10(17)), Mul(U(3), Pow10(18))} }
    \cup { <<TickRadius, TickPlane>>, <<TickRadius, Mul(U(2), TickPlane)>>,
           <<MAX_SAFE_MULTIPLY, U256_MAX>> }

\* arguments of adjust_trust_radius
RadiusValues == { << >>, U(4), Pow10(18) }
IterationValues == { 0, 19, 20, 99 }
FailureValues == { 0, 1, 3 }

\* the invariant of Base(U(10), Balanced)
BalancedInvariant == Dec(<<1, 9999, 9999, 9999, 9915, 9880>>)

\* arguments y and initial_invariant of safe_evaluate_function
EvalOutputs == { << >>, U(5), Pow10(17), Pow10(18) }
EvalInvariants ==
    { Sub(BalancedInvariant, Mul(U(2), PRECISION)), Sub(BalancedInvariant, U(1)),
      BalancedInvariant, Add(BalancedInvariant, U(1)),
      Add(BalancedInvariant, Mul(U(2), PRECISION)) }

---------------------------------------------------------------------------
(* The state machine.  pc is "idle" between calls; "newton" and "gd" while *)
(* solveTorusInvariant is at the head of the Newton loop and of the         *)
(* gradient-descent loop; "sqrt" at the head of sqrt_fixed's loop; "done"   *)
(* and "fp_done" when the call has returned ret.                            *)

Value(v) == [kind |-> "value", val |-> v]
NoValue == [kind |-> "none", val |-> << >>]

Init ==
    /\ pc = "idle"
    /\ args = NoCall
    /\ initial_invariant = << >>
    /\ y = << >>
    /\ trust_radius = << >>
    /\ consecutive_failures = 0
    /\ iteration = 0
    /\ f_y = << >>
    /\ step_size = << >>
    /\ gd_iteration = 0
    /\ ret = NoValue
    /\ path = "none"
    /\ fp_op = "none"
    /\ fp_a = << >>
    /\ fp_b = << >>
    /\ sq_z = << >>
    /\ sq_y = << >>
    /\ sq_n = 0

fp_vars == <<fp_op, fp_a, fp_b, sq_z, sq_y, sq_n>>
loop_vars == <<initial_invariant, y, trust_radius, consecutive_failures, iteration,
               f_y, step_size, gd_iteration>>

\* solveTorusInvariant returns v; how names the branch that returned
Returns(v, how) ==
    /\ pc' = "done"
    /\ ret' = Value(v)
    /\ path' = how

\* solveTorusInvariant up to the head of the Newton loop
SolveCall ==
    /\ pc = "idle"
    /\ \E a \in SolverInputs :
          /\ args' = a
          /\ UNCHANGED fp_vars
          /\ IF ~validate_inputs(a.total_reserves, a.token_in_index, a.token_out_index,
                                 a.amount_in_after_fee, a.sum_interior_reserves,
                                 a.boundary_consolidated_radius)
             THEN Returns(<< >>, "rejected") /\ UNCHANGED loop_vars
             ELSE \E inv \in { compute_torus_invariant_fixed(
                                   a.sum_interior_reserves, a.interior_consolidated_radius,
                                   a.boundary_consolidated_radius, a.boundary_total_k_bound,
                                   a.total_reserves) } :
                  IF ~(inv.ok /\ Gt(inv.val, << >>))
                  THEN Returns(<< >>, "no_invariant") /\ UNCHANGED loop_vars
                  ELSE \E initial_guess \in { calculate_initial_guess(
                                                  a.amount_in_after_fee,
                                                  At(a.total_reserves, a.token_in_index),
                                                  At(a.total_reserves, a.token_out_index)) } :
                       /\ initial_invariant' = inv.val
                       /\ IF initial_guess = None
                          THEN /\ Returns(<< >>, "no_guess")
                               /\ UNCHANGED <<y, trust_radius, consecutive_failures,
                                              iteration, f_y, step_size, gd_iteration>>
                          ELSE /\ pc' = "newton"
                               /\ path' = "newton"
                               /\ y' = initial_guess
                               /\ trust_radius' = div_fixed(initial_guess, U(4))
                               /\ consecutive_failures' = 0
                               /\ iteration' = 0
                               /\ UNCHANGED <<f_y, step_size, gd_iteration, ret>>

\* solve_newton_with_fallbacks gave None: the constant-product fallback
Fallback(how) ==
    Returns(fallback_constant_product(args.amount_in_after_fee,
                                      At(args.total_reserves, args.token_in_index),
                                      At(args.total_reserves, args.token_out_index)),
            how)

\* the Newton loop has run its iterations
NewtonLoopEnds(iteration_) == iteration_ = MAX_NEWTON_ITERATIONS

\* the rest of a Newton iteration whose function value is f
NewtonStep(f) ==
    \E derivative \in { calculate_robust_derivative(y, args, initial_invariant) } :
       /\ f_y' = f
       /\ UNCHANGED ret
       /\ IF derivative = None \/ ~Gt(derivative, TINY_SCALED)
          THEN /\ pc' = "gd"
               /\ path' = "gd"
               /\ step_size' = trust_radius
               /\ gd_iteration' = 0
               /\ UNCHANGED <<y, trust_radius, consecutive_failures, iteration>>
          ELSE \E step \in { calculate_adaptive_step(f, derivative, trust_radius, iteration) } :
               /\ step_size' = step
               /\ y' = update_y_with_bounds(y, f, step,
                                            At(args.total_reserves, args.token_out_index))
               /\ trust_radius' = adjust_trust_radius(trust_radius, iteration,
                                                      consecutive_failures)
               /\ consecutive_failures' = 0
               /\ iteration' = iteration + 1
               /\ UNCHANGED <<pc, path, gd_iteration>>

\* the function value f is within the tolerance: the final sanity check
NewtonConverged(f) ==
    /\ f_y' = f
    /\ UNCHANGED <<y, trust_radius, consecutive_failures, iteration, step_size, gd_iteration>>
    /\ \E checked \in { validate_final_result(
                            y, At(args.total_reserves, args.token_out_index)) } :
          IF checked # None THEN Returns(checked, "converged") ELSE Fallback("fallback")

\* one pass of the for loop of solve_newton_with_fallbacks, from its head
NewtonIterate ==
    /\ pc = "newton"
    /\ UNCHANGED <<args, initial_invariant, fp_vars>>
    /\ IF NewtonLoopEnds(iteration)
       THEN /\ Fallback("fallback")
            /\ UNCHANGED <<y, trust_radius, consecutive_failures, iteration, f_y,
                           step_size, gd_iteration>>
       ELSE \E f \in { safe_evaluate_function(y, args, initial_invariant) } :
            IF f = None
            THEN /\ consecutive_failures' = consecutive_failures + 1
                 /\ UNCHANGED <<trust_radius, f_y, step_size, gd_iteration>>
                 /\ IF consecutive_failures + 1 > 3
                    THEN Fallback("fallback") /\ UNCHANGED <<y, iteration>>
                    ELSE /\ y' = Div(mul_fixed(y, U(9)), U(10))
                         /\ iteration' = iteration + 1
                         /\ UNCHANGED <<pc, ret, path>>
            ELSE IF Le(abs_fixed(f),
                       current_tolerance(calculate_adaptive_tolerance(initial_invariant),
                                         iteration))
            THEN NewtonConverged(f)
            ELSE NewtonStep(f)

\* the gradient-descent loop ends one iteration late
GdLoopEndsLate(gd_iteration_) == gd_iteration_ = max_gd_iterations + 1

\* the gradient-descent loop has run its iterations
GdLoopEnds(gd_iteration_) == gd_iteration_ = max_gd_iterations

\* new_y is within bounds and its function value new_f_y is an improvement
gd_improves(new_y, new_f_y, r_out) ==
    /\ ~(is_zero(new_y) \/ Ge(new_y, r_out))
    /\ new_f_y # None
    /\ Lt(abs_fixed(new_f_y), abs_fixed(f_y))

\* one pass of the for loop of gradient_descent_fallback, from its head; y is
\* the loop's current_y and f_y its f_y, neither of which it changes
GdIterate ==
    /\ pc = "gd"
    /\ UNCHANGED <<args, initial_invariant, y, trust_radius, consecutive_failures,
                   iteration, f_y, fp_vars>>
    /\ IF GdLoopEnds(gd_iteration)
       THEN Fallback("gd_fallback") /\ UNCHANGED <<step_size, gd_iteration>>
       ELSE \E new_y \in { stepped_y(y, f_y, step_size) } :
            /\ gd_iteration' = gd_iteration + 1
            /\ IF gd_improves(new_y,
                              safe_evaluate_function(new_y, args, initial_invariant),
                              At(args.total_reserves, args.token_out_index))
               THEN Returns(new_y, "gd_found") /\ UNCHANGED step_size
               ELSE /\ step_size' = Div(step_size, U(2))
                    /\ IF Lt(Div(step_size, U(2)), TINY_SCALED)
                       THEN Fallback("gd_fallback")
                       ELSE UNCHANGED <<pc, ret, path>>

---------------------------------------------------------------------------
(* The fixed-point primitives called on their own *)

solver_vars == <<args, initial_invariant, y, trust_radius, consecutive_failures,
                 iteration, f_y, step_size, gd_iteration>>

FpReturns(v) == pc' = "fp_done" /\ ret' = Value(v) /\ UNCHANGED path

\* mul_fixed(a, b)
MulCall ==
    /\ pc = "idle"
    /\ \E a \in FixedInputs, b \in FixedInputs :
          /\ fp_op' = "mul_fixed"
          /\ fp_a' = a
          /\ fp_b' = b
          /\ FpReturns(mul_fixed(a, b))
    /\ UNCHANGED <<solver_vars, sq_z, sq_y, sq_n>>

\* div_fixed(a, b)
DivCall ==
    /\ pc = "idle"
    /\ \E a \in FixedInputs, b \in FixedInputs :
          /\ fp_op' = "div_fixed"
          /\ fp_a' = a
          /\ fp_b' = b
          /\ FpReturns(div_fixed(a, b))
    /\ UNCHANGED <<solver_vars, sq_z, sq_y, sq_n>>

\* sqrt_fixed(x) up to the head of its loop
SqrtCall ==
    /\ pc = "idle"
    /\ \E x \in SqrtInputs :
          /\ fp_op' = "sqrt_fixed"
          /\ fp_a' = x
          /\ fp_b' = << >>
          /\ IF is_zero(x) THEN FpReturns(<< >>) /\ UNCHANGED <<sq_z, sq_y, sq_n>>
             ELSE IF x = PRECISION
             THEN FpReturns(PRECISION) /\ UNCHANGED <<sq_z, sq_y, sq_n>>
             ELSE /\ pc' = "sqrt"
                  /\ sq_z' = x
                  /\ sq_y' = SqrtSeed(x)
                  /\ sq_n' = 0
                  /\ UNCHANGED <<ret, path>>
    /\ UNCHANGED solver_vars

\* the loop of sqrt_fixed has run its iterations
SqrtLoopEnds(n) == n = MAX_ITERATIONS_SQRT

\* one pass of the loop of sqrt_fixed, from its head
SqrtIterate ==
    /\ pc = "sqrt"
    /\ UNCHANGED <<solver_vars, fp_op, fp_a, fp_b>>
    /\ IF SqrtLoopEnds(sq_n)
       THEN FpReturns(sq_z) /\ UNCHANGED <<sq_z, sq_y, sq_n>>
       ELSE LET s == SqrtPass(fp_a, [z |-> sq_z, y |-> sq_y, fin |-> FALSE])
            IN /\ sq_z' = s.z
               /\ sq_y' = s.y
               /\ sq_n' = sq_n + 1
               /\ IF s.fin THEN FpReturns(s.z) ELSE UNCHANGED <<pc, ret, path>>

---------------------------------------------------------------------------
(* The tick helpers and two of the solver's helpers called on their own;   *)
(* fp_op names the function, and its arguments are in fp_a and fp_b or in  *)
(* the variables that carry the parameters' names.                         *)

\* calculateRadius(reserves)
RadiusCall ==
    /\ pc = "idle"
    /\ \E reserves \in RadiusInputs :
          /\ fp_op' = "calculateRadius"
          /\ args' = [NoCall EXCEPT !.total_reserves = reserves]
          /\ FpReturns(calculateRadius(reserves))
    /\ UNCHANGED <<loop_vars, fp_a, fp_b, sq_z, sq_y, sq_n>>

\* calculateBoundaryTickS(r, k)
BoundaryTickCall ==
    /\ pc = "idle"
    /\ \E rk \in TickInputs :
          /\ fp_op' = "calculateBoundaryTickS"
          /\ fp_a' = rk[1]
          /\ fp_b' = rk[2]
          /\ FpReturns(calculateBoundaryTickS(rk[1], rk[2]))
    /\ UNCHANGED <<solver_vars, sq_z, sq_y, sq_n>>

\* adjust_trust_radius(current_radius, iteration, failures)
AdjustCall ==
    /\ pc = "idle"
    /\ \E current_radius \in RadiusValues, iteration_ \in IterationValues,
          failures \in FailureValues :
          /\ fp_op' = "adjust_trust_radius"
          /\ trust_radius' = current_radius
          /\ iteration' = iteration_
          /\ consecutive_failures' = failures
          /\ FpReturns(adjust_trust_radius(current_radius, iteration_, failures))
    /\ UNCHANGED <<args, initial_invariant, y, f_y, step_size, gd_iteration,
                   fp_a, fp_b, sq_z, sq_y, sq_n>>

\* safe_evaluate_function(y, ..., initial_invariant) on the balanced pool
EvalCall ==
    /\ pc = "idle"
    /\ \E y_ \in EvalOutputs, initial_inv \in EvalInvariants :
          /\ fp_op' = "safe_evaluate_function"
          /\ args' = Base(U(10), Balanced)
          /\ y' = y_
          /\ initial_invariant' = initial_inv
          /\ FpReturns(safe_evaluate_function(y_, Base(U(10), Balanced), initial_inv))
    /\ UNCHANGED <<trust_radius, consecutive_failures, iteration, f_y, step_size,
                   gd_iteration, fp_a, fp_b, sq_z, sq_y, sq_n>>

\* the caller takes the result; the helper is ready for the next call
Finish ==
    /\ pc \in {"done", "fp_done"}
    /\ pc' = "idle"
    /\ args' = NoCall
    /\ initial_invariant' = << >>
    /\ y' = << >>
    /\ trust_radius' = << >>
    /\ consecutive_failures' = 0
    /\ iteration' = 0
    /\ f_y' = << >>
    /\ step_size' = << >>
    /\ gd_iteration' = 0
    /\ ret' = NoValue
    /\ path' = "none"
    /\ fp_op' = "none"
    /\ fp_a' = << >>
    /\ fp_b' = << >>
    /\ sq_z' = << >>
    /\ sq_y' = << >>
    /\ sq_n' = 0

Next ==
    \/ SolveCall
    \/ NewtonIterate
    \/ GdIterate
    \/ MulCall
    \/ DivCall
    \/ SqrtCall
    \/ SqrtIterate
    \/ RadiusCall
    \/ BoundaryTickCall
    \/ AdjustCall
    \/ EvalCall
    \/ Finish

Spec == Init /\ [][Next]_vars

---------------------------------------------------------------------------
(* The claims.  A call of solveTorusInvariant has returned when pc is      *)
(* "done"; a call of one of the helpers when pc is "fp_done".              *)

\* |a - b|
Distance(a, b) == IF Ge(a, b) THEN Sub(a, b) ELSE Sub(b, a)

\* reserves[token_out_index] of the call
OutReserve == At(args.total_reserves, args.token_out_index)
InReserve == At(args.total_reserves, args.token_in_index)

\* the invariant of the reserves after the trade that ret quotes
PostTradeInvariant ==
    compute_torus_invariant_fixed(
        args.sum_interior_reserves, args.interior_consolidated_radius,
        args.boundary_consolidated_radius, args.boundary_total_k_bound,
        new_reserves(args, ret.val))

\* the wider of the two tolerances the Newton loop applies
SolverTolerance ==
    max_fixed(current_tolerance(calculate_adaptive_tolerance(initial_invariant), 0),
              current_tolerance(calculate_adaptive_tolerance(initial_invariant), 20))

C2_BalancedSwapNearPar ==
    (pc = "done" /\ args = BalancedSwap) =>
        /\ path # "rejected"
        /\ ~is_zero(ret.val)
        /\ Ge(ret.val, Mul(U(9), PRECISION))
        /\ Le(ret.val, Mul(U(10), PRECISION))

\* the call has passed validation and is in, or has left, the solver
InSolver == pc \in {"newton", "gd", "done"}

\* C3: a call with amount_in_after_fee = 0 and valid token indices returns 0
\* from validation; it is never at the head of the Newton loop or of the
\* gradient-descent loop.
C3_ZeroAmountReturnsZero ==
    (/\ InSolver
     /\ is_zero(args.amount_in_after_fee)
     /\ args.token_in_index < TOKENS_COUNT
     /\ args.token_out_index < TOKENS_COUNT) =>
        /\ pc = "done"
        /\ ret = Value(<< >>)
        /\ iteration = 0
        /\ gd_iteration = 0
        /\ is_zero(y)

\* a call with amount 0 from token 0 to token 1 of the skewed pool has
\* returned 0
C3_Witness ==
    /\ pc = "done"
    /\ args = Base(<< >>, Skewed)
    /\ ret = Value(<< >>)

\* the reserve vector or the token indices of the call are malformed
Malformed ==
    \/ Len(args.total_reserves) # TOKENS_COUNT
    \/ args.token_in_index >= TOKENS_COUNT
    \/ args.token_out_index >= TOKENS_COUNT
    \/ args.token_in_index = args.token_out_index

\* C4: a call with a reserve vector of a length other than 5, a token index
\* >= 5 or equal token indices ends in a typed rejection (InvalidArrayLength
\* or InvalidTokenIndex), never in a numeric value.
C4_TypedRejection ==
    (pc = "done" /\ Malformed) => ret.kind \in {"InvalidArrayLength", "InvalidTokenIndex"}

\* C5: a call that left the Newton step for the gradient-descent fallback
\* because the derivative was at or below TINY_SCALED returns an amount
\* strictly between 0 and reserves[out].
C5_FallbackWithinReserve ==
    (pc = "done" /\ path \in {"gd_found", "gd_fallback"}) =>
        Gt(ret.val, << >>) /\ Lt(ret.val, OutReserve)

\* amount_in * r_out / (r_in + amount_in)
ConstantProduct ==
    Div(Mul(args.amount_in_after_fee, OutReserve), Add(InReserve, args.amount_in_after_fee))

\* C6: when the Newton solver yields no result, solveTorusInvariant returns
\* 95% of the constant-product approximation, up to truncation.
C6_FallbackIsDiscountedProduct ==
    (pc = "done" /\ path \in {"fallback", "gd_fallback"}) =>
        Le(Distance(ret.val, Div(Mul(ConstantProduct, U(95)), U(100))), U(1))

\* each loop's counter moves up by one with every pass that stays in the loop
LoopsProgress ==
    /\ (pc = "newton" /\ pc' = "newton") => iteration' = iteration + 1
    /\ (pc = "gd" /\ pc' = "gd") => gd_iteration' = gd_iteration + 1
    /\ (pc = "sqrt" /\ pc' = "sqrt") => sq_n' = sq_n + 1

\* C7: every loop is bounded by its constant whatever the input: the Newton
\* loop by MAX_NEWTON_ITERATIONS, the gradient descent by 20, the loop of
\* sqrt_fixed by MAX_ITERATIONS_SQRT, and each pass that does not leave a
\* loop counts towards its bound, so every call returns.
C7_LoopsBounded ==
    /\ [](/\ iteration <= MAX_NEWTON_ITERATIONS
          /\ gd_iteration <= max_gd_iterations
          /\ sq_n <= MAX_ITERATIONS_SQRT)
    /\ [][LoopsProgress]_vars

\* the gradient descent has used all of its 20 iterations and the call has
\* returned
C7_Witness ==
    /\ pc = "done"
    /\ path = "gd_fallback"
    /\ gd_iteration = max_gd_iterations

\* C8: div_fixed(a, 0) reports DivisionByZero, and mul_fixed and div_fixed
\* report Overflow when a * b or a * PRECISION leaves the range of U256;
\* neither returns a number in these cases.
C8_PrimitivesFailLoudly ==
    /\ (pc = "fp_done" /\ fp_op = "div_fixed" /\ is_zero(fp_b)) =>
           ret.kind = "DivisionByZero"
    /\ (pc = "fp_done" /\ fp_op = "mul_fixed" /\ Gt(Mul(fp_a, fp_b), U256_MAX)) =>
           ret.kind = "Overflow"
    /\ (pc = "fp_done" /\ fp_op = "div_fixed" /\ ~is_zero(fp_b)
            /\ Gt(Mul(fp_a, PRECISION), U256_MAX)) =>
           ret.kind = "Overflow"

\* sqrt_fixed(fp_a) has returned ret.val
SqrtReturned == pc = "fp_done" /\ fp_op = "sqrt_fixed"

\* C9: sqrt_fixed is monotonic: the result for x2 is at least the result
\* for every x1 <= x2.
C9_SqrtMonotonic ==
    SqrtReturned => \A x1 \in SqrtInputs : Le(x1, fp_a) => Le(sqrt_fixed(x1), ret.val)

\* C10: sqrt_fixed(0) = 0, and the fixed-point square of sqrt_fixed(x) is
\* within one unit of x (one unit read as 1.0, the widest reading).
C10_SqrtSquaresBack ==
    SqrtReturned =>
        /\ is_zero(fp_a) => is_zero(ret.val)
        /\ Le(Distance(mul_fixed(ret.val, ret.val), fp_a), PRECISION)

\* |k - r / sqrt(5)| >= r, decided exactly: as k >= 0 it is
\* k - r >= r / sqrt(5), that is k >= r and 5 (k - r)^2 >= r^2
OutsideTick(r, k) ==
    Ge(k, r) /\ Ge(Mul(U(5), Mul(Sub(k, r), Sub(k, r))), Mul(r, r))

\* C11: calculateBoundaryTickS(r, k) returns 0 whenever |k - r / sqrt(5)| >= r,
\* whatever the magnitudes of r and k.
C11_TickZeroOutside ==
    (pc = "fp_done" /\ fp_op = "calculateBoundaryTickS" /\ OutsideTick(fp_a, fp_b)) =>
        is_zero(ret.val)

\* reserve / (1 - 1 / sqrt(5)) with one fixed-point divide
ClosedFormRadius(reserve) ==
    div_fixed(reserve, Sub(PRECISION, div_fixed(PRECISION, SQRT5_SCALED)))

\* C12: calculateRadius of a tick's reserve is reserve / (1 - 1 / sqrt(5)),
\* here to within a thousandth of the reserve.
C12_RadiusClosedForm ==
    (pc = "fp_done" /\ fp_op = "calculateRadius" /\ Len(args.total_reserves) = 1) =>
        Le(Distance(ret.val, ClosedFormRadius(args.total_reserves[1])),
           Div(args.total_reserves[1], U(1000)))

\* C13: at the head of every iteration of the Newton loop, after the seed
\* and after every update, the candidate y is strictly between 0 and
\* reserves[out].
C13_CandidateInsideReserve ==
    pc = "newton" => Gt(y, << >>) /\ Lt(y, OutReserve)

\* C14: the tolerance the Newton loop applies in any of its iterations 0..19
\* is at least the one it applies in any of its iterations 20..99.
C14_ToleranceLoosenedEarly ==
    pc = "newton" =>
        \A early \in 0..19 : \A late \in 20..(MAX_NEWTON_ITERATIONS - 1) :
            Ge(current_tolerance(calculate_adaptive_tolerance(initial_invariant), early),
               current_tolerance(calculate_adaptive_tolerance(initial_invariant), late))

\* C15: adjust_trust_radius gives a radius at least as large after a step
\* with no failure before it (larger while iteration < 20 and the radius is
\* nonzero), and half the radius after a step that follows a failure.
C15_TrustRadiusUpOnSuccess ==
    (pc = "fp_done" /\ fp_op = "adjust_trust_radius") =>
        /\ consecutive_failures = 0 =>
              /\ Ge(ret.val, trust_radius)
              /\ (iteration < 20 /\ ~is_zero(trust_radius)) => Gt(ret.val, trust_radius)
        /\ consecutive_failures > 0 => ret.val = Div(trust_radius, U(2))

\* C16: whatever the input, the value solveTorusInvariant returns is 0 or
\* strictly less than reserves[token_out_index].
C16_QuoteBelowReserve ==
    pc = "done" =>
        \/ is_zero(ret.val)
        \/ /\ args.token_out_index < Len(args.total_reserves)
           /\ Lt(ret.val, OutReserve)

\* the Newton loop has converged on a nonzero amount below the output reserve
C16_Witness ==
    /\ pc = "done"
    /\ path = "converged"
    /\ ~is_zero(ret.val)
    /\ Lt(ret.val, OutReserve)

\* the invariant of the reserves after the trade of y
EvaluatedInvariant ==
    compute_torus_invariant_fixed(
        args.sum_interior_reserves, args.interior_consolidated_radius,
        args.boundary_consolidated_radius, args.boundary_total_k_bound,
        new_reserves(args, y))

====
